---- MODULE Spec2Model ----
(***************************************************************************)
(* A model of the tax-fluent-chat backend: the user-profile store with its *)
(* adaptive proficiency tracker (app/crud.py), its use from concurrent     *)
(* database sessions (app/database.py), and the 2024 progressive tax       *)
(* calculator (app/services/tax_calculator.py).                            *)
(*                                                                         *)
(* Six specifications share the variables:                                 *)
(*   Spec      the profile store, one CRUD call at a time;                 *)
(*   ConcSpec  update_user_interaction_stats running in several database   *)
(*             sessions whose SELECT and UPDATE/COMMIT interleave;         *)
(*   TaxSpec   the tax functions and the /tax/calculate route applied to   *)
(*             drawn inputs;                                               *)
(*   ExplainSpec  the explanation engine                                   *)
(*             (app/services/explanation_engine.py) applied to drawn       *)
(*             queries, levels and contexts;                               *)
(*   QuietSpec the tracker under a fair stream of interactions that ask    *)
(*             for no help;                                                *)
(*   FormSpec  the /tax-forms router (app/api/tax_forms.py) over its       *)
(*             tables, with create_tax_form running in several database    *)
(*             sessions.                                                   *)
(***************************************************************************)
EXTENDS Integers, Sequences, FiniteSets

VARIABLES
    profiles,   \* user id -> committed row of user_profiles
    sess,       \* database session -> the call it is running
    serial,     \* history: the rows a one-at-a-time execution, in commit order, would hold
    overlap,    \* history: user id -> two calls for that user were in flight together
    started,    \* history: number of calls begun in ConcSpec
    call,       \* the tax function being applied and its arguments
    result,     \* what that function returned or raised
    tax_forms,      \* the rows of table tax_forms
    sub_resources,  \* the rows of dependents, w2_forms, form_1099s, compliance_checks
    audit_logs,     \* the rows of audit_logs, in insertion order
    next_id,        \* table -> the next value of its id sequence
    form_req,       \* database session -> the create_tax_form request it is running
    response        \* the last response of the /tax-forms router

vars == <<profiles, sess, serial, overlap, started, call, result,
          tax_forms, sub_resources, audit_logs, next_id, form_req, response>>

\* The state of the /tax-forms router and its tables.
formvars == <<tax_forms, sub_resources, audit_logs, next_id, form_req, response>>

\* The tables the /tax-forms router reads and writes.
FormTables == {"tax_forms", "dependents", "w2_forms", "form_1099s", "compliance_checks"}

\* The database sessions that run create_tax_form requests.
FormSessions == {1, 2}

\* A session with no create_tax_form request in it.
NoRequest == [pc |-> "idle"]

\* No request answered yet.
NoResponse == [endpoint |-> "none"]

\* Empty tables, fresh id sequences, no request in flight.
FormsIdle ==
    /\ tax_forms = {}
    /\ sub_resources = {}
    /\ audit_logs = <<>>
    /\ next_id = [t \in FormTables |-> 1]
    /\ form_req = [s \in FormSessions |-> NoRequest]
    /\ response = NoResponse

(***************************************************************************)
(* The profile store                                                       *)
(***************************************************************************)

\* Ids of the rows of the users table used in the model.
Users == {1, 2}

\* Cap on interaction_count, so that the state space is finite.
MaxCount == 13

\* The levels the tracker knows, in ascending order.
Levels == <<"novice", "intermediate", "expert">>

LevelSet == {Levels[i] : i \in 1..Len(Levels)}

\* preferred_mode is a free String column: one value stands for every
\* string that is none of the three levels.
NonLevelMode == "guided"

ModeValues == LevelSet \cup {NonLevelMode}

\* Position of a level in novice < intermediate < expert (0 for any other string).
Rank(mode) ==
    IF mode \in LevelSet
    THEN CHOOSE i \in 1..Len(Levels) : Levels[i] = mode
    ELSE 0

\* A user_profiles row, reduced to the columns the tracker reads and writes;
\* exists = FALSE stands for "no row for this user".
NoProfile ==
    [exists |-> FALSE, preferred_mode |-> "novice",
     interaction_count |-> 0, help_requests |-> 0]

\* The row create_user inserts: preferred_mode="novice", counters at the
\* column default 0.
DefaultProfile ==
    [exists |-> TRUE, preferred_mode |-> "novice",
     interaction_count |-> 0, help_requests |-> 0]

\* interaction_count > 10: the sample-size gate.
MinInteractions == 10

\* help_rate < 0.1 is help_requests * 10 < interaction_count, and
\* help_rate < 0.05 is help_requests * 20 < interaction_count.
NoviceRateDen == 10

IntermediateRateDen == 20

\* Promote without the sample-size gate.
PromoteMutantNoGate(mode, ic, hr) ==
    IF hr * NoviceRateDen < ic /\ mode = "novice" THEN "intermediate"
    ELSE IF hr * IntermediateRateDen < ic /\ mode = "intermediate" THEN "expert"
    ELSE mode

\* Promote with the two help-rate thresholds exchanged.
PromoteMutantSwapped(mode, ic, hr) ==
    IF ic > MinInteractions
    THEN IF hr * IntermediateRateDen < ic /\ mode = "novice" THEN "intermediate"
         ELSE IF hr * NoviceRateDen < ic /\ mode = "intermediate" THEN "expert"
         ELSE mode
    ELSE mode

\* Promote with a branch that sends a help-seeking expert back.
PromoteMutantDemote(mode, ic, hr) ==
    IF ic > MinInteractions
    THEN IF hr * NoviceRateDen < ic /\ mode = "novice" THEN "intermediate"
         ELSE IF hr * IntermediateRateDen < ic /\ mode = "intermediate" THEN "expert"
         ELSE IF hr * NoviceRateDen >= ic /\ mode = "expert" THEN "intermediate"
         ELSE mode
    ELSE mode

\* Promote with the gate at interaction_count >= 10.
PromoteMutantGateGe(mode, ic, hr) ==
    IF ic >= MinInteractions
    THEN IF hr * NoviceRateDen < ic /\ mode = "novice" THEN "intermediate"
         ELSE IF hr * IntermediateRateDen < ic /\ mode = "intermediate" THEN "expert"
         ELSE mode
    ELSE mode

\* Promote with two independent ifs instead of the if/elif.
PromoteMutantCascade(mode, ic, hr) ==
    IF ic > MinInteractions
    THEN LET first == IF hr * NoviceRateDen < ic /\ mode = "novice"
                      THEN "intermediate" ELSE mode
         IN  IF hr * IntermediateRateDen < ic /\ first = "intermediate"
             THEN "expert" ELSE first
    ELSE mode

\* The if/elif that follows the increments: the new preferred_mode.
Promote(mode, ic, hr) ==
    IF ic > MinInteractions
    THEN IF hr * NoviceRateDen < ic /\ mode = "novice" THEN "intermediate"
         ELSE IF hr * IntermediateRateDen < ic /\ mode = "intermediate" THEN "expert"
         ELSE mode
    ELSE mode

\* Bump that counts every call as a help request.
BumpMutantHelpAlways(p, help_requested) ==
    [p EXCEPT !.interaction_count = @ + 1,
              !.help_requests = @ + 1]

\* The two increments of update_user_interaction_stats.
Bump(p, help_requested) ==
    [p EXCEPT !.interaction_count = @ + 1,
              !.help_requests = IF help_requested THEN @ + 1 ELSE @]

\* What update_user_interaction_stats does to the row object it loaded,
\* before the commit.
RecordInteraction(p, help_requested) ==
    LET q == Bump(p, help_requested)
    IN  [q EXCEPT !.preferred_mode =
            Promote(q.preferred_mode, q.interaction_count, q.help_requests)]

\* The UPDATE a commit flushes: the ORM writes the columns of the loaded
\* object whose value differs from the loaded one, the others keep what the
\* table holds now.
Flush(current, loaded, local) ==
    [exists |-> current.exists,
     preferred_mode |->
        IF local.preferred_mode # loaded.preferred_mode
        THEN local.preferred_mode ELSE current.preferred_mode,
     interaction_count |->
        IF local.interaction_count # loaded.interaction_count
        THEN local.interaction_count ELSE current.interaction_count,
     help_requests |->
        IF local.help_requests # loaded.help_requests
        THEN local.help_requests ELSE current.help_requests]

\* CommitRow with an UPDATE that lacks its WHERE clause.
CommitRowMutantAllUsers(table, u, loaded, local) ==
    [v \in Users |->
        IF table[v].exists THEN Flush(table[v], loaded, local) ELSE table[v]]

\* The table after one session committed its row for user u.
CommitRow(table, u, loaded, local) ==
    [table EXCEPT ![u] = Flush(@, loaded, local)]

\* A session that runs no call.
IdleSession ==
    [pc |-> "idle", user |-> 1, help_requested |-> FALSE,
     loaded |-> NoProfile, local |-> NoProfile]

\* The database sessions (one per request in flight) of the model.
Sessions == {1, 2, 3}

\* No tax function applied (call), nothing returned yet (result).
TaxIdle == [fn |-> "none"]

\* create_user: inserts the user and its default profile; a second insert
\* for the same user raises IntegrityError and is rolled back.
CreateUser(u) ==
    /\ profiles' = IF profiles[u].exists
                   THEN profiles
                   ELSE [profiles EXCEPT ![u] = DefaultProfile]
    /\ UNCHANGED <<sess, serial, overlap, started, call, result>>
    /\ UNCHANGED formvars

\* update_user_profile with preferred_mode set to m (any string): every
\* set field is copied to the row; no row, no change.
UpdateUserProfile(u, m) ==
    /\ profiles' = IF profiles[u].exists
                   THEN [profiles EXCEPT ![u].preferred_mode = m]
                   ELSE profiles
    /\ UNCHANGED <<sess, serial, overlap, started, call, result>>
    /\ UNCHANGED formvars

\* update_user_interaction_stats run to completion in one session: load the
\* row, return if there is none, modify it, commit.
UpdateUserInteractionStats(u, help_requested) ==
    /\ profiles[u].interaction_count < MaxCount
    /\ profiles' =
        IF profiles[u].exists
        THEN CommitRow(profiles, u, profiles[u],
                       RecordInteraction(profiles[u], help_requested))
        ELSE profiles
    /\ UNCHANGED <<sess, serial, overlap, started, call, result>>
    /\ UNCHANGED formvars

(***************************************************************************)
(* The tax calculator (app/services/tax_calculator.py)                     *)
(*                                                                         *)
(* Amounts are whole dollars.  A rate is kept as its per-mille integer     *)
(* (0.10 is 100), so dollars * rate is an exact amount in mills ($0.001);  *)
(* round(x, 2) takes mills to cents.  Returned money fields are in cents,  *)
(* returned rate fields in hundredths of a percent.                        *)
(***************************************************************************)

\* float('inf'): larger than every amount of the model.
Inf == 2000000000

TAX_BRACKETS_SINGLE ==
    << <<11600, 100>>, <<47150, 120>>, <<100525, 220>>, <<191950, 240>>,
       <<243725, 320>>, <<609350, 350>>, <<Inf, 370>> >>

TAX_BRACKETS_MARRIED_JOINT ==
    << <<23200, 100>>, <<94300, 120>>, <<201050, 220>>, <<383900, 240>>,
       <<487450, 320>>, <<731200, 350>>, <<Inf, 370>> >>

TAX_BRACKETS_MARRIED_SEPARATE ==
    << <<11600, 100>>, <<47150, 120>>, <<100525, 220>>, <<191950, 240>>,
       <<243725, 320>>, <<365600, 350>>, <<Inf, 370>> >>

TAX_BRACKETS_HEAD_OF_HOUSEHOLD ==
    << <<16550, 100>>, <<63100, 120>>, <<100500, 220>>, <<191950, 240>>,
       <<243700, 320>>, <<609350, 350>>, <<Inf, 370>> >>

\* STANDARD_DEDUCTIONS with the amounts of tax year 2023.
STANDARD_DEDUCTIONS_Mutant2023 ==
    [single |-> 13850,
     married_joint |-> 27700,
     married_separate |-> 13850,
     head_of_household |-> 20800]

\* 2024 standard deductions, in dollars.
STANDARD_DEDUCTIONS ==
    [single |-> 14600, married_joint |-> 29200,
     married_separate |-> 14600, head_of_household |-> 21900]

\* raise TaxCalculationError(message)
TaxCalculationError(message) == [kind |-> "error", message |-> message]

\* round(x, 2) of an amount given in mills: the nearest cent, a tie going to
\* the even cent.
RoundHalfEvenDiv(n, d) ==
    LET q == n \div d
        r == n % d
    IN  IF 2 * r < d THEN q
        ELSE IF 2 * r > d THEN q + 1
        ELSE IF q % 2 = 0 THEN q ELSE q + 1

Round2(mills) == RoundHalfEvenDiv(mills, 10)

\* A whole-dollar amount in mills.
Mills(dollars) == dollars * 1000

\* The dict of get_tax_brackets.
BracketTable ==
    [single |-> TAX_BRACKETS_SINGLE,
     married_joint |-> TAX_BRACKETS_MARRIED_JOINT,
     married_separate |-> TAX_BRACKETS_MARRIED_SEPARATE,
     head_of_household |-> TAX_BRACKETS_HEAD_OF_HOUSEHOLD]

get_tax_brackets(filing_status) ==
    IF filing_status \notin DOMAIN BracketTable
    THEN TaxCalculationError("Invalid filing status")
    ELSE [kind |-> "ok", brackets |-> BracketTable[filing_status]]

get_standard_deduction(filing_status) ==
    IF filing_status \notin DOMAIN STANDARD_DEDUCTIONS
    THEN TaxCalculationError("Invalid filing status for deduction")
    ELSE [kind |-> "ok", amount |-> STANDARD_DEDUCTIONS[filing_status]]

\* LastSlab that forgets the income already taxed in lower brackets.
LastSlabMutantWholeIncome(taxable_income, previous_threshold) ==
    taxable_income

\* taxable_in_bracket of the terminal bracket.
LastSlab(taxable_income, previous_threshold) ==
    taxable_income - previous_threshold

\* FullSlab that forgets where the bracket starts.
FullSlabMutantFromZero(threshold, previous_threshold) ==
    threshold

\* taxable_in_bracket of a bracket that is passed in full.
FullSlab(threshold, previous_threshold) ==
    threshold - previous_threshold

\* bracket_desc: the two bounds the f-string prints.
BracketDesc(previous_threshold, threshold) ==
    IF threshold = Inf
    THEN [form |-> "top", low |-> previous_threshold, high |-> Inf]
    ELSE [form |-> "range", low |-> previous_threshold, high |-> threshold]

\* InBracket with a strict comparison.
InBracketMutantStrict(taxable_income, threshold) ==
    taxable_income < threshold

\* if taxable_income <= threshold: this bracket is the terminal one.
InBracket(taxable_income, threshold) ==
    taxable_income <= threshold

\* Accumulate that overwrites the running total.
AccumulateMutantAssign(total_tax, slab_tax) ==
    slab_tax

\* total_tax += taxable_in_bracket * rate
Accumulate(total_tax, slab_tax) ==
    total_tax + slab_tax

RECURSIVE SlabLoop(_, _, _, _, _)
\* The for loop of calculate_progressive_tax from bracket i on; total_tax in
\* mills.  Falling off the end returns the initial marginal_rate and
\* bracket_desc.
SlabLoop(brackets, i, taxable_income, previous_threshold, total_tax) ==
    IF i > Len(brackets)
    THEN [kind |-> "ok", total_tax |-> total_tax, marginal_rate |-> 0,
          bracket_desc |-> [form |-> "empty", low |-> 0, high |-> 0]]
    ELSE LET threshold == brackets[i][1]
             rate == brackets[i][2]
         IN  IF InBracket(taxable_income, threshold)
             THEN [kind |-> "ok",
                   total_tax |-> Accumulate(total_tax,
                        LastSlab(taxable_income, previous_threshold) * rate),
                   marginal_rate |-> rate,
                   bracket_desc |-> BracketDesc(previous_threshold, threshold)]
             ELSE SlabLoop(brackets, i + 1, taxable_income, threshold,
                           Accumulate(total_tax,
                                FullSlab(threshold, previous_threshold) * rate))

calculate_progressive_tax(taxable_income, filing_status) ==
    IF taxable_income < 0
    THEN TaxCalculationError("Taxable income cannot be negative")
    ELSE IF taxable_income = 0
    THEN [kind |-> "ok", total_tax |-> 0, marginal_rate |-> 0,
          bracket_desc |-> [form |-> "zero", low |-> 0, high |-> 0]]
    ELSE LET looked == get_tax_brackets(filing_status)
         IN  IF looked.kind = "error" THEN looked
             ELSE SlabLoop(looked.brackets, 1, taxable_income, 0, 0)

Max(a, b) == IF a >= b THEN a ELSE b

\* TotalDeductions that adds the two deductions.
TotalDeductionsMutantAdditive(standard_deduction, additional_deductions) ==
    standard_deduction + additional_deductions

\* total_deductions = max(standard_deduction, additional_deductions)
TotalDeductions(standard_deduction, additional_deductions) ==
    Max(standard_deduction, additional_deductions)

\* TaxableIncome without the clamp at 0.
TaxableIncomeMutantNoClamp(income, total_deductions) ==
    income - total_deductions

\* taxable_income = max(0, income - total_deductions)
TaxableIncome(income, total_deductions) ==
    Max(0, income - total_deductions)

\* EffectiveRate that cuts the digits after the second decimal.
EffectiveRateMutantTruncate(federal_tax, income) ==
    IF income > 0
    THEN 10 * (federal_tax \div income) + ((10 * (federal_tax % income)) \div income)
    ELSE 0

\* round(federal_tax / income * 100, 2), in hundredths of a percent, from
\* the tax in mills and the income in dollars: 10 * mills / income, divided
\* in two steps to stay inside 32-bit integers.
EffectiveRate(federal_tax, income) ==
    IF income > 0
    THEN 10 * (federal_tax \div income)
            + RoundHalfEvenDiv(10 * (federal_tax % income), income)
    ELSE 0

\* The values generate_calculation_explanation interpolates.
generate_calculation_explanation(income, taxable_income, federal_tax, filing_status, standard_deduction, total_deductions, marginal_rate) ==
    [filing_status |-> filing_status,
     income |-> Round2(Mills(income)),
     total_deductions |-> Round2(Mills(total_deductions)),
     deduction_type |-> IF total_deductions = standard_deduction
                        THEN "standard deduction" ELSE "itemized deductions",
     taxable_income |-> Round2(Mills(taxable_income)),
     federal_tax |-> Round2(federal_tax),
     marginal_rate |-> RoundHalfEvenDiv(marginal_rate, 10)]

\* ValidateInputs that tests the dependents before the income.
ValidateInputsMutantReordered(income, dependents, additional_deductions) ==
    IF dependents < 0
    THEN TaxCalculationError("Number of dependents cannot be negative")
    ELSE IF income < 0 THEN TaxCalculationError("Income cannot be negative")
    ELSE IF additional_deductions < 0
    THEN TaxCalculationError("Additional deductions cannot be negative")
    ELSE [kind |-> "ok"]

\* The three input checks that open calculate_tax, in their order.
ValidateInputs(income, dependents, additional_deductions) ==
    IF income < 0 THEN TaxCalculationError("Income cannot be negative")
    ELSE IF dependents < 0
    THEN TaxCalculationError("Number of dependents cannot be negative")
    ELSE IF additional_deductions < 0
    THEN TaxCalculationError("Additional deductions cannot be negative")
    ELSE [kind |-> "ok"]

calculate_tax(income, filing_status, dependents, additional_deductions) ==
    LET checked == ValidateInputs(income, dependents, additional_deductions)
    IN  IF checked.kind = "error" THEN checked
        ELSE
        LET sd == get_standard_deduction(filing_status)
        IN  IF sd.kind = "error" THEN sd
             ELSE
             LET standard_deduction == sd.amount
                 total_deductions ==
                    TotalDeductions(standard_deduction, additional_deductions)
                 taxable_income == TaxableIncome(income, total_deductions)
                 prog == calculate_progressive_tax(taxable_income, filing_status)
             IN  IF prog.kind = "error" THEN prog
                 ELSE
                 [kind |-> "ok",
                  gross_income |-> Round2(Mills(income)),
                  taxable_income |-> Round2(Mills(taxable_income)),
                  federal_tax |-> Round2(prog.total_tax),
                  effective_rate |-> EffectiveRate(prog.total_tax, income),
                  marginal_rate |-> prog.marginal_rate * 10,
                  tax_bracket |-> prog.bracket_desc,
                  standard_deduction |-> Round2(Mills(standard_deduction)),
                  total_deductions |-> Round2(Mills(total_deductions)),
                  explanation |-> generate_calculation_explanation(
                        income, taxable_income, prog.total_tax, filing_status,
                        standard_deduction, total_deductions, prog.marginal_rate)]

\* raise HTTPException(status_code, detail)
HTTPException(status_code, detail) ==
    [kind |-> "http_error", status_code |-> status_code, detail |-> detail]

\* TaxInput: income > 0, one of the four Literal statuses, dependents >= 0,
\* deductions >= 0.
TaxInputValid(income, filing_status, dependents, deductions) ==
    /\ income > 0
    /\ filing_status \in
        {"single", "married_joint", "married_separate", "head_of_household"}
    /\ dependents >= 0
    /\ deductions >= 0

\* POST /tax/calculate: the body is validated as a TaxInput (422 when it is
\* not one), then calculate_tax runs; a TaxCalculationError becomes a 400.
calculate_taxes(income, filing_status, dependents, deductions) ==
    IF ~TaxInputValid(income, filing_status, dependents, deductions)
    THEN HTTPException(422, "validation error")
    ELSE LET r == calculate_tax(income, filing_status, dependents, deductions)
         IN  IF r.kind = "error" THEN HTTPException(400, r.message) ELSE r

(***************************************************************************)
(* The second calculator (app/tax_calculator.py), served by                *)
(* POST /calculate-tax of app/main.py.  Same units as above.               *)
(***************************************************************************)

\* class FilingStatus(str, Enum)
TC_FilingStatus ==
    {"single", "married_joint", "married_separate", "head_of_household"}

\* TaxCalculator.STANDARD_DEDUCTIONS, in dollars.
TC_STANDARD_DEDUCTIONS ==
    [single |-> 14600, married_joint |-> 29200,
     married_separate |-> 14600, head_of_household |-> 21900]

\* TaxCalculator.TAX_BRACKETS: <<rate per mille, upper limit>>.
TC_TAX_BRACKETS ==
    [single |->
        << <<100, 11600>>, <<120, 47150>>, <<220, 100525>>, <<240, 191950>>,
           <<320, 243725>>, <<350, 609350>>, <<370, Inf>> >>,
     married_joint |->
        << <<100, 23200>>, <<120, 94300>>, <<220, 201050>>, <<240, 383900>>,
           <<320, 487450>>, <<350, 731200>>, <<370, Inf>> >>,
     married_separate |->
        << <<100, 11600>>, <<120, 47150>>, <<220, 100525>>, <<240, 191950>>,
           <<320, 243725>>, <<350, 365600>>, <<370, Inf>> >>,
     head_of_household |->
        << <<100, 16550>>, <<120, 63100>>, <<220, 100500>>, <<240, 191950>>,
           <<320, 243700>>, <<350, 609350>>, <<370, Inf>> >>]

\* TaxInput of app/tax_calculator.py: income > 0 and at most 10,000,000, a
\* FilingStatus, dependents >= 0, deductions >= 0.
TC_TaxInputValid(income, filing_status, dependents, deductions) ==
    /\ income > 0
    /\ income <= 10000000
    /\ filing_status \in TC_FilingStatus
    /\ dependents >= 0
    /\ deductions >= 0

\* raise ValueError(message)
ValueError(message) == [kind |-> "error", message |-> message]

\* The loop of TaxCalculator._calculate_progressive_tax from bracket i on:
\* the tax in mills and the breakdown rows.
RECURSIVE TC_SlabLoop(_, _, _, _, _, _)
TC_SlabLoop(brackets, i, taxable_income, previous_limit, total_tax, breakdown) ==
    IF i > Len(brackets) \/ taxable_income <= previous_limit
    THEN [total_tax |-> total_tax, breakdown |-> breakdown]
    ELSE LET rate == brackets[i][1]
             upper_limit == brackets[i][2]
             bracket_income ==
                (IF taxable_income < upper_limit
                 THEN taxable_income ELSE upper_limit) - previous_limit
             taxed == bracket_income > 0
             new_tax == IF taxed THEN total_tax + bracket_income * rate
                        ELSE total_tax
             new_breakdown ==
                IF taxed
                THEN Append(breakdown,
                        [rate |-> rate * 10,
                         income_in_bracket |-> Round2(Mills(bracket_income)),
                         tax_in_bracket |-> Round2(bracket_income * rate),
                         low |-> previous_limit,
                         high |-> upper_limit])
                ELSE breakdown
         IN  IF taxable_income <= upper_limit
             THEN [total_tax |-> new_tax, breakdown |-> new_breakdown]
             ELSE TC_SlabLoop(brackets, i + 1, taxable_income, upper_limit,
                              new_tax, new_breakdown)

\* TaxCalculator._calculate_progressive_tax
TC_calculate_progressive_tax(taxable_income, filing_status) ==
    TC_SlabLoop(TC_TAX_BRACKETS[filing_status], 1, taxable_income, 0, 0, <<>>)

\* TaxCalculator._get_marginal_rate: the rate, per mille, of the first
\* bracket whose upper limit is >= the taxable income.
TC_get_marginal_rate(taxable_income, filing_status) ==
    LET brackets == TC_TAX_BRACKETS[filing_status]
        hits == {i \in 1..Len(brackets) : taxable_income <= brackets[i][2]}
    IN  IF hits # {}
        THEN brackets[CHOOSE i \in hits : \A j \in hits : i <= j][1]
        ELSE brackets[Len(brackets)][1]

\* TaxCalculator.calculate_tax
TC_calculate_tax(income, filing_status, dependents, deductions) ==
    IF filing_status \notin DOMAIN TC_STANDARD_DEDUCTIONS
    THEN ValueError("Invalid filing status")
    ELSE LET standard_deduction == TC_STANDARD_DEDUCTIONS[filing_status]
             total_deductions == standard_deduction + deductions
             taxable_income == Max(0, income - total_deductions)
             prog == TC_calculate_progressive_tax(taxable_income, filing_status)
             marginal_rate == TC_get_marginal_rate(taxable_income, filing_status)
         IN  [kind |-> "ok",
              gross_income |-> Round2(Mills(income)),
              taxable_income |-> Round2(Mills(taxable_income)),
              tax_liability |-> Round2(prog.total_tax),
              effective_rate |-> EffectiveRate(prog.total_tax, income),
              marginal_rate |-> marginal_rate * 10,
              standard_deduction |-> Round2(Mills(standard_deduction)),
              breakdown |-> prog.breakdown]

\* POST /calculate-tax: the body is validated as a TaxInput (422 when it is
\* not one), then TaxCalculator.calculate_tax runs; a ValueError becomes a
\* 400.
main_calculate_tax(income, filing_status, dependents, deductions) ==
    IF ~TC_TaxInputValid(income, filing_status, dependents, deductions)
    THEN HTTPException(422, "validation error")
    ELSE LET r == TC_calculate_tax(income, filing_status, dependents, deductions)
         IN  IF r.kind = "error" THEN HTTPException(400, r.message) ELSE r

\* How far around each bracket threshold and each standard deduction the
\* drawn amounts go.
Delta == 1

\* The four statuses of the tables, the two long names the tax-form model
\* documents, and a status nobody knows.
StatusInputs ==
    {"single", "married_joint", "married_separate", "head_of_household",
     "married_filing_jointly", "married_filing_separately", "widow"}

Around(S) == {x + d : x \in S, d \in (0 - Delta)..Delta}

AllThresholds ==
    {BracketTable[f][i][1] : f \in DOMAIN BracketTable, i \in 1..6}

StdDeductionValues == {STANDARD_DEDUCTIONS[f] : f \in DOMAIN STANDARD_DEDUCTIONS}

\* Taxable incomes: negative, zero, around every threshold, and those of the
\* documented scenarios.
TaxableInputs ==
    {-1, 0, 35400, 970800} \cup Around({1} \cup AllThresholds)

\* Gross incomes: the same, the amounts around each standard deduction, and
\* those whose taxable income lands around a threshold.
GrossInputs ==
    {-1, 0, 1, 50000, 1000000}
        \cup Around(StdDeductionValues)
        \cup {t + sd : t \in Around(AllThresholds), sd \in StdDeductionValues}

AdditionalInputs == {-1, 0, 50000} \cup Around(StdDeductionValues)

DependentInputs == {-1, 0, 2}

TaxCalls ==
    [fn : {"calculate_tax", "calculate_taxes", "main_calculate_tax"},
     income : GrossInputs, filing_status : StatusInputs,
     dependents : DependentInputs, additional_deductions : AdditionalInputs]
    \cup
    [fn : {"get_tax_brackets", "get_standard_deduction"},
     filing_status : StatusInputs]
    \cup
    [fn : {"calculate_progressive_tax"}, taxable_income : TaxableInputs,
     filing_status : StatusInputs]

CalculateTax ==
    /\ call.fn = "calculate_tax"
    /\ result = TaxIdle
    /\ result' = calculate_tax(call.income, call.filing_status,
                               call.dependents, call.additional_deductions)
    /\ UNCHANGED <<profiles, sess, serial, overlap, started, call>>
    /\ UNCHANGED formvars

\* A request to POST /tax/calculate.
CalculateTaxes ==
    /\ call.fn = "calculate_taxes"
    /\ result = TaxIdle
    /\ result' = calculate_taxes(call.income, call.filing_status,
                                 call.dependents, call.additional_deductions)
    /\ UNCHANGED <<profiles, sess, serial, overlap, started, call>>
    /\ UNCHANGED formvars

\* A request to POST /calculate-tax.
MainCalculateTax ==
    /\ call.fn = "main_calculate_tax"
    /\ result = TaxIdle
    /\ result' = main_calculate_tax(call.income, call.filing_status,
                                    call.dependents, call.additional_deductions)
    /\ UNCHANGED <<profiles, sess, serial, overlap, started, call>>
    /\ UNCHANGED formvars

GetTaxBrackets ==
    /\ call.fn = "get_tax_brackets"
    /\ result = TaxIdle
    /\ result' = get_tax_brackets(call.filing_status)
    /\ UNCHANGED <<profiles, sess, serial, overlap, started, call>>
    /\ UNCHANGED formvars

GetStandardDeduction ==
    /\ call.fn = "get_standard_deduction"
    /\ result = TaxIdle
    /\ result' = get_standard_deduction(call.filing_status)
    /\ UNCHANGED <<profiles, sess, serial, overlap, started, call>>
    /\ UNCHANGED formvars

CalculateProgressiveTax ==
    /\ call.fn = "calculate_progressive_tax"
    /\ result = TaxIdle
    /\ result' = calculate_progressive_tax(call.taxable_income, call.filing_status)
    /\ UNCHANGED <<profiles, sess, serial, overlap, started, call>>
    /\ UNCHANGED formvars

TaxInit ==
    /\ call \in TaxCalls
    /\ result = TaxIdle
    /\ profiles = [u \in Users |-> NoProfile]
    /\ sess = [s \in Sessions |-> IdleSession]
    /\ serial = [u \in Users |-> NoProfile]
    /\ overlap = [u \in Users |-> FALSE]
    /\ started = 0
    /\ FormsIdle

TaxNext ==
    \/ CalculateTax
    \/ CalculateTaxes
    \/ MainCalculateTax
    \/ CalculateProgressiveTax
    \/ GetTaxBrackets
    \/ GetStandardDeduction

TaxSpec == TaxInit /\ [][TaxNext]_vars

\* Number of calls begun in one run of ConcSpec.
MaxCalls == 3

RECURSIVE Repeat(_, _)
\* The row after n calls without a help request, one at a time.
Repeat(p, n) ==
    IF n = 0 THEN p ELSE Repeat(RecordInteraction(p, FALSE), n - 1)

\* Rows ConcSpec starts from: a fresh profile, one at the sample-size gate
\* and one just promoted, each reached by calls made one at a time.
StartCounts == {0, 10, 11}

StartProfiles == {Repeat(DefaultProfile, n) : n \in StartCounts}

\* A request handler gets a session from get_db and enters
\* update_user_interaction_stats: get_user_profile SELECTs the row, and the
\* increments and the promotion are applied to the loaded object.
Begin(s, u, help_requested) ==
    /\ sess[s].pc = "idle"
    /\ started < MaxCalls
    /\ started' = started + 1
    /\ IF profiles[u].exists
       THEN /\ sess' = [sess EXCEPT ![s] =
                    [pc |-> "loaded", user |-> u,
                     help_requested |-> help_requested,
                     loaded |-> profiles[u],
                     local |-> RecordInteraction(profiles[u], help_requested)]]
            /\ overlap' = [overlap EXCEPT ![u] =
                    @ \/ \E t \in Sessions \ {s} :
                            sess[t].pc = "loaded" /\ sess[t].user = u]
       ELSE UNCHANGED <<sess, overlap>>
    /\ UNCHANGED <<profiles, serial, call, result>>
    /\ UNCHANGED formvars

\* db.commit(): the UPDATE of the changed columns is flushed and committed,
\* and get_db closes the session.
Commit(s) ==
    /\ sess[s].pc = "loaded"
    /\ profiles' = CommitRow(profiles, sess[s].user, sess[s].loaded, sess[s].local)
    /\ serial' = [serial EXCEPT ![sess[s].user] =
                    RecordInteraction(@, sess[s].help_requested)]
    /\ sess' = [sess EXCEPT ![s] = IdleSession]
    /\ UNCHANGED <<overlap, started, call, result>>
    /\ UNCHANGED formvars

Init ==
    /\ profiles = [u \in Users |-> NoProfile]
    /\ sess = [s \in Sessions |-> IdleSession]
    /\ serial = [u \in Users |-> NoProfile]
    /\ overlap = [u \in Users |-> FALSE]
    /\ started = 0
    /\ FormsIdle
    /\ call = TaxIdle
    /\ result = TaxIdle

Next ==
    \/ \E u \in Users : CreateUser(u)
    \/ \E u \in Users, m \in ModeValues : UpdateUserProfile(u, m)
    \/ \E u \in Users, h \in BOOLEAN : UpdateUserInteractionStats(u, h)

Spec == Init /\ [][Next]_vars

ConcInit ==
    /\ profiles \in [Users -> StartProfiles]
    /\ serial = profiles
    /\ sess = [s \in Sessions |-> IdleSession]
    /\ overlap = [u \in Users |-> FALSE]
    /\ started = 0
    /\ FormsIdle
    /\ call = TaxIdle
    /\ result = TaxIdle

ConcNext ==
    \/ \E s \in Sessions, u \in Users, h \in BOOLEAN : Begin(s, u, h)
    \/ \E s \in Sessions : Commit(s)

ConcSpec == ConcInit /\ [][ConcNext]_vars

(***************************************************************************)
(* The explanation engine (app/services/explanation_engine.py)             *)
(*                                                                         *)
(* A Python str is a sequence of one-character strings, so that lower(),   *)
(* replace() and the substring test are computed.  An explanation text is  *)
(* named by the table, key and level it is stored under; a text that is    *)
(* formatted from a calculation carries the values it interpolates.        *)
(***************************************************************************)

UpperCase ==
    <<"A", "B", "C", "D", "E", "F", "G", "H", "I", "J", "K", "L", "M",
      "N", "O", "P", "Q", "R", "S", "T", "U", "V", "W", "X", "Y", "Z">>

LowerCase ==
    <<"a", "b", "c", "d", "e", "f", "g", "h", "i", "j", "k", "l", "m",
      "n", "o", "p", "q", "r", "s", "t", "u", "v", "w", "x", "y", "z">>

\* str.lower() of one character.
CharLower(c) ==
    IF \E i \in 1..Len(UpperCase) : UpperCase[i] = c
    THEN LowerCase[CHOOSE i \in 1..Len(UpperCase) : UpperCase[i] = c]
    ELSE c

\* query.lower()
StrLower(s) == [i \in 1..Len(s) |-> CharLower(s[i])]

\* key.replace("_", " ")
StrReplace(s, old, new) == [i \in 1..Len(s) |-> IF s[i] = old THEN new ELSE s[i]]

\* needle in hay
StrIn(needle, hay) ==
    \E i \in 0..(Len(hay) - Len(needle)) :
        SubSeq(hay, i + 1, i + Len(needle)) = needle

\* The keys of TAX_TERMS, in the order of the dict.
TAX_TERMS ==
    <<"agi",
      "standard_deduction",
      "marginal_rate",
      "effective_rate",
      "itemized_deductions",
      "progressive_brackets",
      "credits">>

\* The keys of TOPICS, in the order of the dict.
TOPICS ==
    <<"filing_status",
      "deductions_vs_credits",
      "tax_planning">>

\* The characters of each key.
Spell ==
    [agi |->
        <<"a", "g", "i">>,
     standard_deduction |->
        <<"s", "t", "a", "n", "d", "a", "r", "d", "_", "d", "e", "d", "u", "c", "t", "i", "o", "n">>,
     marginal_rate |->
        <<"m", "a", "r", "g", "i", "n", "a", "l", "_", "r", "a", "t", "e">>,
     effective_rate |->
        <<"e", "f", "f", "e", "c", "t", "i", "v", "e", "_", "r", "a", "t", "e">>,
     itemized_deductions |->
        <<"i", "t", "e", "m", "i", "z", "e", "d", "_", "d", "e", "d", "u", "c", "t", "i", "o", "n", "s">>,
     progressive_brackets |->
        <<"p", "r", "o", "g", "r", "e", "s", "s", "i", "v", "e", "_", "b", "r", "a", "c", "k", "e", "t", "s">>,
     credits |->
        <<"c", "r", "e", "d", "i", "t", "s">>,
     filing_status |->
        <<"f", "i", "l", "i", "n", "g", "_", "s", "t", "a", "t", "u", "s">>,
     deductions_vs_credits |->
        <<"d", "e", "d", "u", "c", "t", "i", "o", "n", "s", "_", "v", "s", "_", "c", "r", "e", "d", "i", "t", "s">>,
     tax_planning |->
        <<"t", "a", "x", "_", "p", "l", "a", "n", "n", "i", "n", "g">>]

\* raise KeyError(key)
KeyError(key) == [kind |-> "error", exception |-> "KeyError", key |-> key]

\* The term_keywords that occur, lower-cased, in each stored text.
TextKeywords ==
    [agi |->
        [novice |-> {"agi", "deduction", "income", "itemized", "standard"},
         intermediate |-> {"agi", "deduction", "income"},
         expert |-> {"agi", "deduction", "credit", "income"}],
     standard_deduction |->
        [novice |-> {"deduction", "income", "standard"},
         intermediate |-> {"deduction", "income", "itemized", "standard"},
         expert |-> {"deduction", "itemized", "standard"}],
     marginal_rate |->
        [novice |-> {"bracket", "rate", "income"},
         intermediate |-> {"bracket", "rate", "income"},
         expert |-> {"deduction", "bracket", "rate", "income"}],
     effective_rate |->
        [novice |-> {"bracket", "rate", "income"},
         intermediate |-> {"bracket", "rate", "income"},
         expert |-> {"agi", "rate"}],
     itemized_deductions |->
        [novice |-> {"deduction", "income", "itemized", "standard"},
         intermediate |-> {"agi", "deduction", "standard"},
         expert |-> {"agi", "rate"}],
     progressive_brackets |->
        [novice |-> {"bracket", "rate", "income"},
         intermediate |-> {"bracket", "income"},
         expert |-> {"bracket", "rate", "income"}],
     credits |->
        [novice |-> {"deduction", "credit", "income"},
         intermediate |-> {"deduction", "credit", "income"},
         expert |-> {"credit", "rate", "income"}],
     filing_status |->
        [novice |-> {"deduction", "bracket", "standard"},
         intermediate |-> {"deduction", "bracket", "rate", "standard"},
         expert |-> {}],
     deductions_vs_credits |->
        [novice |-> {"deduction", "credit", "rate", "income"},
         intermediate |-> {"deduction", "credit", "rate", "income"},
         expert |-> {"deduction", "credit", "rate", "income"}],
     tax_planning |->
        [novice |-> {"deduction", "credit", "income"},
         intermediate |-> {"deduction", "rate", "income"},
         expert |-> {"bracket", "rate", "income"}]]

\* The levels get_explanation knows.
EngineLevels == {"novice", "intermediate", "expert"}

\* Explanations whose three levels all hold the novice text.
ExplanationsMutantNoviceOnly(table, key) ==
    [level \in {"novice", "intermediate", "expert"} |->
        [table |-> table, key |-> key, level |-> "novice"]]

\* The dict of the three texts stored under a key of a table.
Explanations(table, key) ==
    [level \in EngineLevels |-> [table |-> table, key |-> key, level |-> level]]

\* get_explanation that keeps the proficiency it was given.
NormaliseProficiencyMutantKeep(proficiency) ==
    proficiency

\* if proficiency not in ["novice", "intermediate", "expert"]: "novice"
NormaliseProficiency(proficiency) ==
    IF proficiency \notin EngineLevels THEN "novice" ELSE proficiency

\* term.replace("_", " ") in query_lower or term in query_lower
TermMatches(term, query_lower) ==
    \/ StrIn(StrReplace(Spell[term], "_", " "), query_lower)
    \/ StrIn(Spell[term], query_lower)

\* topic.replace("_", " ") in query_lower
TopicMatches(topic, query_lower) ==
    StrIn(StrReplace(Spell[topic], "_", " "), query_lower)

\* _extract_terms: the set of keywords found in the text.  No stored text
\* holds more than five, so the [:5] of the code drops none; the order of
\* list(set(...)) is unspecified, so the value is kept as a set.
extract_terms(text) ==
    TextKeywords[text.key][text.level]

\* s[:3]
FirstThree(s) ==
    SubSeq(s, 1, IF Len(s) < 3 THEN Len(s) ELSE 3)

\* _get_related_topics that puts the term itself after three fixed topics.
get_related_topicsMutantFour(term) ==
    <<"tax_planning", "filing_status", "credits", term>>

\* _get_related_topics
get_related_topics(term) ==
    LET related ==
            [agi |-> <<"standard_deduction", "itemized_deductions", "credits">>,
             standard_deduction |-> <<"itemized_deductions", "agi", "filing_status">>,
             marginal_rate |-> <<"effective_rate", "progressive_brackets", "tax_planning">>,
             effective_rate |-> <<"marginal_rate", "progressive_brackets">>,
             itemized_deductions |-> <<"standard_deduction", "agi", "deductions_vs_credits">>,
             progressive_brackets |-> <<"marginal_rate", "effective_rate", "tax_planning">>,
             credits |-> <<"deductions_vs_credits", "agi", "tax_planning">>,
             filing_status |-> <<"standard_deduction", "progressive_brackets", "tax_planning">>,
             deductions_vs_credits |-> <<"credits", "itemized_deductions", "tax_planning">>,
             tax_planning |-> <<"deductions_vs_credits", "credits", "marginal_rate">>]
    IN  FirstThree(IF term \in DOMAIN related
                   THEN related[term]
                   ELSE <<"tax_planning", "filing_status">>)

\* A dict is the set of its <<key, value>> items.
DictHas(d, k) == \E item \in d : item[1] = k

\* d.get(k, default)
DictGet(d, k, default) ==
    IF DictHas(d, k) THEN (CHOOSE item \in d : item[1] = k)[2] ELSE default

\* The if / elif / else over the level in _explain_calculation and
\* _get_default_explanation: every value but the first two takes the expert
\* branch.
LevelBranch(proficiency) ==
    IF proficiency = "novice" THEN "novice"
    ELSE IF proficiency = "intermediate" THEN "intermediate"
    ELSE "expert"

\* _explain_calculation: the text of the level with the four values it
\* interpolates.
explain_calculation(context, proficiency) ==
    [kind |-> "ok",
     explanation |->
        [table |-> "calculation",
         level |-> LevelBranch(proficiency),
         income |-> DictGet(context, "gross_income", 0),
         tax |-> DictGet(context, "federal_tax", 0),
         effective |-> DictGet(context, "effective_rate", 0),
         marginal |-> DictGet(context, "marginal_rate", 0)],
     proficiency |-> proficiency,
     technical_terms |-> {"effective_rate", "marginal_rate", "progressive_brackets"},
     related_topics |-> <<"tax_planning", "deductions_vs_credits">>]

\* _get_default_explanation
get_default_explanation(query, proficiency) ==
    [table |-> "default", level |-> LevelBranch(proficiency)]

\* The dict returned for a key that matched; explanations[proficiency]
\* raises KeyError for a level the dict does not hold.
MatchResult(table, key, proficiency) ==
    LET explanations == Explanations(table, key)
    IN  IF proficiency \notin DOMAIN explanations
        THEN KeyError(proficiency)
        ELSE [kind |-> "ok",
              explanation |-> explanations[proficiency],
              proficiency |-> proficiency,
              technical_terms |-> extract_terms(explanations[proficiency]),
              related_topics |-> get_related_topics(key)]

\* context=None
None == [none |-> TRUE]

\* A context that is a dict.
Dict(items) == [none |-> FALSE, items |-> items]

\* ExplanationEngine.get_explanation(query, proficiency, context)
get_explanation(query, proficiency, context) ==
    LET level == NormaliseProficiency(proficiency)
        query_lower == StrLower(query)
        term_hits == {i \in 1..Len(TAX_TERMS) :
                        TermMatches(TAX_TERMS[i], query_lower)}
        topic_hits == {i \in 1..Len(TOPICS) :
                        TopicMatches(TOPICS[i], query_lower)}
        First(hits) == CHOOSE i \in hits : \A j \in hits : i <= j
    IN  IF term_hits # {}
        THEN MatchResult("TAX_TERMS", TAX_TERMS[First(term_hits)], level)
        ELSE IF topic_hits # {}
        THEN MatchResult("TOPICS", TOPICS[First(topic_hits)], level)
        ELSE IF /\ ~context.none
                /\ context.items # {}
                /\ DictHas(context.items, "federal_tax")
        THEN explain_calculation(context.items, level)
        ELSE [kind |-> "ok",
              explanation |-> get_default_explanation(query, level),
              proficiency |-> level,
              technical_terms |-> {},
              related_topics |-> <<"tax_planning", "filing_status">>]

\* explain(query, proficiency, context)
explain(query, proficiency, context) ==
    get_explanation(query, proficiency, context)

\* Queries: every key as it is spelled and with spaces for underscores, a
\* key in capitals and inside a sentence, a word that merely contains a key,
\* a topic key in capitals with its underscore, and words that match nothing.
QueryInputs ==
    {Spell[k] : k \in DOMAIN Spell}
    \cup {StrReplace(Spell[k], "_", " ") : k \in DOMAIN Spell}
    \cup {<<"A", "G", "I">>,
          <<"w", "h", "a", "t", " ", "i", "s", " ", "a", "g", "i", "?">>,
          <<"m", "a", "n", "a", "g", "i", "n", "g">>,
          <<"h", "e", "l", "l", "o">>,
          <<>>,
          <<"F", "i", "l", "i", "n", "g", " ", "S", "t", "a", "t", "u", "s">>,
          <<"m", "a", "r", "g", "i", "n", "a", "l">>,
          <<"d", "e", "d", "u", "c", "t", "i", "o", "n">>,
          <<"c", "r", "e", "d", "i", "t">>,
          <<"t", "a", "x", " ", "b", "r", "a", "c", "k", "e", "t", "s">>,
          <<"T", "a", "x", "_", "P", "l", "a", "n", "n", "i", "n", "g">>}

\* The three levels and a value that is none of them.
ProficiencyInputs == EngineLevels \cup {"guru"}

\* No context, an empty dict, a dict without federal_tax, a dict with only
\* federal_tax, and the result of a tax calculation.
ContextInputs ==
    {None,
     Dict({}),
     Dict({<<"gross_income", 5000000>>}),
     Dict({<<"federal_tax", 401600>>}),
     Dict({<<"gross_income", 5000000>>, <<"federal_tax", 401600>>,
           <<"effective_rate", 803>>, <<"marginal_rate", 1200>>})}

ExplainCalls ==
    [fn : {"explain"}, query : QueryInputs,
     proficiency : ProficiencyInputs, context : ContextInputs]

Explain ==
    /\ call.fn = "explain"
    /\ result = TaxIdle
    /\ result' = explain(call.query, call.proficiency, call.context)
    /\ UNCHANGED <<profiles, sess, serial, overlap, started, call>>
    /\ UNCHANGED formvars

ExplainInit ==
    /\ call \in ExplainCalls
    /\ result = TaxIdle
    /\ profiles = [u \in Users |-> NoProfile]
    /\ sess = [s \in Sessions |-> IdleSession]
    /\ serial = [u \in Users |-> NoProfile]
    /\ overlap = [u \in Users |-> FALSE]
    /\ started = 0
    /\ FormsIdle

ExplainNext == Explain

ExplainSpec == ExplainInit /\ [][ExplainNext]_vars

(***************************************************************************)
(* The tracker from a point after which no interaction asks for help       *)
(***************************************************************************)

\* Largest number of help requests a profile holds at that point.
MaxHelp == 2

\* Largest interaction_count at that point: the count at which the help rate
\* of MaxHelp requests is exactly 0.05.
QuietStart == IntermediateRateDen * MaxHelp

\* The calls after that point stop at this count, two calls past QuietStart.
QuietCap == QuietStart + 2

\* The rows a profile can hold at that point: any stored preferred_mode
\* (update_user_profile stores any string) and counters with
\* help_requests <= interaction_count.
QuietProfiles ==
    {p \in [exists : {TRUE}, preferred_mode : ModeValues,
            interaction_count : 0..QuietStart, help_requests : 0..MaxHelp] :
        p.help_requests <= p.interaction_count}

\* update_user_interaction_stats(db, u, help_requested=False), run to
\* completion.
QuietInteraction(u) ==
    /\ profiles[u].interaction_count < QuietCap
    /\ profiles' =
        IF profiles[u].exists
        THEN CommitRow(profiles, u, profiles[u],
                       RecordInteraction(profiles[u], FALSE))
        ELSE profiles
    /\ UNCHANGED <<sess, serial, overlap, started, call, result>>
    /\ UNCHANGED formvars

\* User 1 has a profile, user 2 has none.
QuietInit ==
    /\ profiles \in {[u \in Users |-> IF u = 1 THEN p ELSE NoProfile] :
                        p \in QuietProfiles}
    /\ sess = [s \in Sessions |-> IdleSession]
    /\ serial = [u \in Users |-> NoProfile]
    /\ overlap = [u \in Users |-> FALSE]
    /\ started = 0
    /\ FormsIdle
    /\ call = TaxIdle
    /\ result = TaxIdle

QuietNext == \E u \in Users : QuietInteraction(u)

\* The interactions keep coming: a call that can be made is made.
QuietSpec ==
    QuietInit /\ [][QuietNext]_vars /\ \A u \in Users : WF_vars(QuietInteraction(u))

(***************************************************************************)
(* The /tax-forms router (app/api/tax_forms.py) and its tables             *)
(*                                                                         *)
(* A tax form is a record [id, owner_id, year, filing_status, status]; the *)
(* JSON and calculated columns, which no handler below reads, are left     *)
(* out.  A row of dependents, w2_forms, form_1099s or compliance_checks is *)
(* a record [table, id, form_id].  A response is a record [endpoint, user, *)
(* form_id, status_code, data], data being the set of rows it returns.     *)
(***************************************************************************)

\* Number of audit_logs rows, and so of writing requests, in one run.
MaxAudit == 2

\* Number of compliance checks stored in one run.
MaxChecks == 1

\* TaxFormBase.year: an integer from 2000 to 2030; two of them.
Years == {2023, 2024}

\* The form ids a request names: the ids the sequence can hand out in one
\* run; one of them names no form until that many forms were created.
FormIds == 1..MaxAudit

\* TaxFormUpdate as form_update.dict(exclude_unset=True): the set fields;
\* one update, of two fields.
UpdateInputs ==
    {{<<"status", "completed">>, <<"filing_status", "head_of_household">>}}

\* crud.get_tax_form: the rows with that id (at most one).
get_tax_form(forms, form_id) == {form \in forms : form.id = form_id}

\* crud.get_user_tax_forms: the user's forms, of that year when year is truthy.
get_user_tax_forms(forms, user_id, year) ==
    {form \in forms : form.owner_id = user_id /\ (year # 0 => form.year = year)}

\* form.owner_id != current_user.id, the test every handler makes.
NotOwnerMutantNever(form, current_user) == FALSE

\* form.owner_id != current_user.id, the test every handler makes.
NotOwner(form, current_user) == form.owner_id # current_user

\* crud.create_audit_log
create_audit_log(logs, user_id, action, resource_type, resource_id) ==
    Append(logs, [user_id |-> user_id, action |-> action,
                  resource_type |-> resource_type, resource_id |-> resource_id])

\* raise HTTPException(status_code=...): the response carries no row.
Refuse(endpoint, u, f, status_code) ==
    [endpoint |-> endpoint, user |-> u, form_id |-> f,
     status_code |-> status_code, data |-> {}]

\* A handler's return value, serialised with the given success status.
Reply(endpoint, u, f, status_code, data) ==
    [endpoint |-> endpoint, user |-> u, form_id |-> f,
     status_code |-> status_code, data |-> data]

\* Create requests that passed the existence check and have not inserted yet.
InFlight == Cardinality({s \in FormSessions : form_req[s].pc = "checked"})

\* A writing request may start: the run's audit rows are not used up.
Room == Len(audit_logs) + InFlight < MaxAudit

\* create_tax_form, first half: the handler SELECTs the user's forms of the
\* year; a non-empty answer is refused with 400.
CreateTaxFormCheck(s, u, year) ==
    /\ form_req[s].pc = "idle"
    /\ Room
    /\ IF get_user_tax_forms(tax_forms, u, year) # {}
       THEN /\ response' = Refuse("create_tax_form", u, 0, 400)
            /\ UNCHANGED form_req
       ELSE /\ form_req' = [form_req EXCEPT ![s] =
                    [pc |-> "checked", user |-> u, year |-> year]]
            /\ UNCHANGED response
    /\ UNCHANGED <<tax_forms, sub_resources, audit_logs, next_id>>
    /\ UNCHANGED <<profiles, sess, serial, overlap, started, call, result>>

\* create_tax_form, second half: crud.create_tax_form INSERTs and commits the
\* row, the audit row is written, the form is returned with 201.
CreateTaxFormInsert(s) ==
    /\ form_req[s].pc = "checked"
    /\ LET new_form == [id |-> next_id["tax_forms"],
                        owner_id |-> form_req[s].user,
                        year |-> form_req[s].year,
                        filing_status |-> "single",
                        status |-> "in_progress"]
       IN  /\ tax_forms' = tax_forms \cup {new_form}
           /\ next_id' = [next_id EXCEPT !["tax_forms"] = @ + 1]
           /\ audit_logs' = create_audit_log(audit_logs, form_req[s].user,
                                "create_tax_form", "tax_form", new_form.id)
           /\ response' = Reply("create_tax_form", form_req[s].user,
                                new_form.id, 201, {new_form})
    /\ form_req' = [form_req EXCEPT ![s] = NoRequest]
    /\ UNCHANGED sub_resources
    /\ UNCHANGED <<profiles, sess, serial, overlap, started, call, result>>

\* GET /tax-forms/{form_id}
GetTaxForm(u, f) ==
    /\ LET found == get_tax_form(tax_forms, f)
       IN  response' =
            IF found = {} THEN Refuse("get_tax_form", u, f, 404)
            ELSE IF \E form \in found : NotOwner(form, u)
                 THEN Refuse("get_tax_form", u, f, 403)
                 ELSE Reply("get_tax_form", u, f, 200, found)
    /\ UNCHANGED <<tax_forms, sub_resources, audit_logs, next_id, form_req>>
    /\ UNCHANGED <<profiles, sess, serial, overlap, started, call, result>>

\* crud.update_tax_form: setattr for every set field.
update_tax_form(form, update_data) ==
    [field \in DOMAIN form |->
        IF \E item \in update_data : item[1] = field
        THEN (CHOOSE item \in update_data : item[1] = field)[2]
        ELSE form[field]]

\* PUT /tax-forms/{form_id}
UpdateTaxForm(u, f, update_data) ==
    /\ Room
    /\ LET found == get_tax_form(tax_forms, f)
       IN  IF found = {}
           THEN /\ response' = Refuse("update_tax_form", u, f, 404)
                /\ UNCHANGED <<tax_forms, audit_logs>>
           ELSE IF \E form \in found : NotOwner(form, u)
           THEN /\ response' = Refuse("update_tax_form", u, f, 403)
                /\ UNCHANGED <<tax_forms, audit_logs>>
           ELSE LET updated == {update_tax_form(form, update_data) : form \in found}
                IN  /\ tax_forms' = (tax_forms \ found) \cup updated
                    /\ audit_logs' = create_audit_log(audit_logs, u,
                                        "update_tax_form", "tax_form", f)
                    /\ response' = Reply("update_tax_form", u, f, 200, updated)
    /\ UNCHANGED <<sub_resources, next_id, form_req>>
    /\ UNCHANGED <<profiles, sess, serial, overlap, started, call, result>>

\* DELETE /tax-forms/{form_id}: the audit row is written first, then
\* crud.delete_tax_form deletes the form and, by the cascade of its
\* relationships, its rows in the other tables.
DeleteTaxForm(u, f) ==
    /\ Room
    /\ LET found == get_tax_form(tax_forms, f)
       IN  IF found = {}
           THEN /\ response' = Refuse("delete_tax_form", u, f, 404)
                /\ UNCHANGED <<tax_forms, sub_resources, audit_logs>>
           ELSE IF \E form \in found : NotOwner(form, u)
           THEN /\ response' = Refuse("delete_tax_form", u, f, 403)
                /\ UNCHANGED <<tax_forms, sub_resources, audit_logs>>
           ELSE /\ audit_logs' = create_audit_log(audit_logs, u,
                                    "delete_tax_form", "tax_form", f)
                /\ tax_forms' = tax_forms \ found
                /\ sub_resources' = {r \in sub_resources : r.form_id # f}
                /\ response' = Reply("delete_tax_form", u, f, 204, {})
    /\ UNCHANGED <<next_id, form_req>>
    /\ UNCHANGED <<profiles, sess, serial, overlap, started, call, result>>

\* The POST handlers of a form's dependents, W-2s and 1099s: a missing form
\* and a form of another user are both refused with 403; otherwise the row
\* is inserted, the audit row written and the row returned with 201.
CreateSubResource(endpoint, table, action, resource_type, u, f) ==
    /\ Room
    /\ LET found == get_tax_form(tax_forms, f)
           row == [table |-> table, id |-> next_id[table], form_id |-> f]
       IN  IF found = {} \/ \E form \in found : NotOwner(form, u)
           THEN /\ response' = Refuse(endpoint, u, f, 403)
                /\ UNCHANGED <<sub_resources, audit_logs, next_id>>
           ELSE /\ sub_resources' = sub_resources \cup {row}
                /\ next_id' = [next_id EXCEPT ![table] = @ + 1]
                /\ audit_logs' = create_audit_log(audit_logs, u, action,
                                                  resource_type, row.id)
                /\ response' = Reply(endpoint, u, f, 201, {row})
    /\ UNCHANGED <<tax_forms, form_req>>
    /\ UNCHANGED <<profiles, sess, serial, overlap, started, call, result>>

\* The GET handlers of a form's dependents, W-2s, 1099s and compliance
\* checks: the same ownership test, then the form's rows of the table.
ListSubResources(endpoint, table, u, f) ==
    /\ LET found == get_tax_form(tax_forms, f)
       IN  response' =
            IF found = {} \/ \E form \in found : NotOwner(form, u)
            THEN Refuse(endpoint, u, f, 403)
            ELSE Reply(endpoint, u, f, 200,
                       {r \in sub_resources : r.table = table /\ r.form_id = f})
    /\ UNCHANGED <<tax_forms, sub_resources, audit_logs, next_id, form_req>>
    /\ UNCHANGED <<profiles, sess, serial, overlap, started, call, result>>

\* POST /tax-forms/{form_id}/dependents
CreateDependent(u, f) ==
    CreateSubResource("create_dependent", "dependents", "create_dependent", "dependent", u, f)

\* GET /tax-forms/{form_id}/dependents
ListDependents(u, f) == ListSubResources("list_dependents", "dependents", u, f)

\* POST /tax-forms/{form_id}/w2s
CreateW2Form(u, f) ==
    CreateSubResource("create_w2_form", "w2_forms", "create_w2", "w2_form", u, f)

\* GET /tax-forms/{form_id}/w2s
ListW2Forms(u, f) == ListSubResources("list_w2_forms", "w2_forms", u, f)

\* POST /tax-forms/{form_id}/1099s
Create1099Form(u, f) ==
    CreateSubResource("create_1099_form", "form_1099s", "create_1099", "form_1099", u, f)

\* GET /tax-forms/{form_id}/1099s
List1099Forms(u, f) == ListSubResources("list_1099_forms", "form_1099s", u, f)

\* GET /tax-forms/{form_id}/compliance-checks
ListComplianceChecks(u, f) ==
    ListSubResources("list_compliance_checks", "compliance_checks", u, f)

\* crud.create_compliance_check, which no route calls: a check of an
\* existing form is stored.
CreateComplianceCheck(f) ==
    /\ get_tax_form(tax_forms, f) # {}
    /\ next_id["compliance_checks"] <= MaxChecks
    /\ sub_resources' = sub_resources \cup
            {[table |-> "compliance_checks",
              id |-> next_id["compliance_checks"], form_id |-> f]}
    /\ next_id' = [next_id EXCEPT !["compliance_checks"] = @ + 1]
    /\ UNCHANGED <<tax_forms, audit_logs, form_req, response>>
    /\ UNCHANGED <<profiles, sess, serial, overlap, started, call, result>>

FormInit ==
    /\ FormsIdle
    /\ profiles = [u \in Users |-> NoProfile]
    /\ sess = [s \in Sessions |-> IdleSession]
    /\ serial = [u \in Users |-> NoProfile]
    /\ overlap = [u \in Users |-> FALSE]
    /\ started = 0
    /\ call = TaxIdle
    /\ result = TaxIdle

FormNext ==
    \/ \E s \in FormSessions, u \in Users, year \in Years : CreateTaxFormCheck(s, u, year)
    \/ \E s \in FormSessions : CreateTaxFormInsert(s)
    \/ \E u \in Users, f \in FormIds : GetTaxForm(u, f)
    \/ \E u \in Users, f \in FormIds, d \in UpdateInputs : UpdateTaxForm(u, f, d)
    \/ \E u \in Users, f \in FormIds : DeleteTaxForm(u, f)
    \/ \E u \in Users, f \in FormIds : CreateDependent(u, f)
    \/ \E u \in Users, f \in FormIds : ListDependents(u, f)
    \/ \E u \in Users, f \in FormIds : CreateW2Form(u, f)
    \/ \E u \in Users, f \in FormIds : ListW2Forms(u, f)
    \/ \E u \in Users, f \in FormIds : Create1099Form(u, f)
    \/ \E u \in Users, f \in FormIds : List1099Forms(u, f)
    \/ \E u \in Users, f \in FormIds : ListComplianceChecks(u, f)
    \/ \E f \in FormIds : CreateComplianceCheck(f)

FormSpec == FormInit /\ [][FormNext]_vars

(***************************************************************************)
(* Claims about the proficiency tracker                                    *)
(***************************************************************************)

\* C1: a call of update_user_interaction_stats never lowers the level: the
\* rank of preferred_mode in novice < intermediate < expert after the call
\* is at least the rank before it, and an expert profile stays expert.
C1_NeverDemotes ==
    [][\A u \in Users, h \in BOOLEAN :
        (UpdateUserInteractionStats(u, h) /\ profiles[u].exists) =>
            /\ Rank(profiles'[u].preferred_mode) >= Rank(profiles[u].preferred_mode)
            /\ (profiles[u].preferred_mode = "expert" =>
                    profiles'[u].preferred_mode = "expert")]_vars

\* An expert past the gate whose help rate is 10% or more: the state a
\* demotion would start from.
C1_Witness ==
    \E u \in Users :
        /\ profiles[u].exists
        /\ profiles[u].preferred_mode = "expert"
        /\ profiles[u].interaction_count > 11
        /\ profiles[u].help_requests * 10 >= profiles[u].interaction_count

\* C2: a call that leaves interaction_count at 10 or less leaves
\* preferred_mode as it was, whatever the help rate.
C2_SampleGate ==
    [][\A u \in Users, h \in BOOLEAN :
        (UpdateUserInteractionStats(u, h) /\ profiles'[u].interaction_count <= 10) =>
            profiles'[u].preferred_mode = profiles[u].preferred_mode]_vars

\* The 10th call of a novice that never asked for help: rate 0, still novice.
C2_Witness ==
    \E u \in Users :
        /\ profiles[u].exists
        /\ profiles[u].preferred_mode = "novice"
        /\ profiles[u].interaction_count = 10
        /\ profiles[u].help_requests = 0

\* C3: with the counters as the call leaves them and interaction_count > 10,
\* novice becomes intermediate exactly when help_requests/interaction_count
\* < 1/10, intermediate becomes expert exactly when it is < 1/20, and the
\* level is unchanged in every other case.
C3_PromotionRule ==
    [][\A u \in Users, h \in BOOLEAN :
        (UpdateUserInteractionStats(u, h) /\ profiles[u].exists) =>
            LET before == profiles[u].preferred_mode
                after  == profiles'[u].preferred_mode
                n      == profiles'[u].interaction_count
                k      == profiles'[u].help_requests
                gate   == n > 10
            IN  /\ (before = "novice" /\ gate /\ 10 * k < n) => after = "intermediate"
                /\ (before = "intermediate" /\ gate /\ 20 * k < n) => after = "expert"
                /\ ~(before = "novice" /\ gate /\ 10 * k < n)
                   /\ ~(before = "intermediate" /\ gate /\ 20 * k < n)
                   => after = before]_vars

\* A profile past the gate with a help rate between 5% and 10%: promoted
\* from novice, not promoted from intermediate.
C3_Witness ==
    \E u \in Users :
        /\ profiles[u].exists
        /\ profiles[u].preferred_mode = "intermediate"
        /\ profiles[u].interaction_count = 12
        /\ profiles[u].help_requests = 1

\* C4: a call on an existing profile adds exactly 1 to interaction_count,
\* and adds 1 to help_requests when help_requested and 0 when not.
C4_Counters ==
    [][\A u \in Users, h \in BOOLEAN :
        (UpdateUserInteractionStats(u, h) /\ profiles[u].exists) =>
            /\ profiles'[u].interaction_count = profiles[u].interaction_count + 1
            /\ profiles'[u].help_requests =
                    profiles[u].help_requests + (IF h THEN 1 ELSE 0)]_vars

\* A profile that saw calls of both kinds.
C4_Witness ==
    \E u \in Users :
        /\ profiles[u].exists
        /\ profiles[u].interaction_count = 3
        /\ profiles[u].help_requests = 1

\* C5: once every call has committed, interaction_count and help_requests
\* of each user have grown by the number of calls made for that user and by
\* the number of them with help_requested: no update is lost.
C5_NoLostUpdate ==
    (\A s \in Sessions : sess[s].pc = "idle") =>
        \A u \in Users :
            /\ profiles[u].interaction_count = serial[u].interaction_count
            /\ profiles[u].help_requests = serial[u].help_requests

\* C6: a commit made for one user leaves every other user's row unchanged,
\* and a user whose calls never overlapped with each other holds exactly the
\* row its own calls produce one at a time, whatever the other users' calls
\* did in between.
C6_UsersIndependent ==
    /\ [](\A u \in Users : ~overlap[u] => profiles[u] = serial[u])
    /\ [][\A s \in Sessions :
            Commit(s) =>
                \A v \in Users \ {sess[s].user} : profiles'[v] = profiles[v]]_vars

\* Two calls for user 1, one after the other, took it from the gate to
\* expert while a call for user 2 was in flight.
C6_Witness ==
    /\ ~overlap[1]
    /\ started = 3
    /\ profiles[1] = [exists |-> TRUE, preferred_mode |-> "expert",
                      interaction_count |-> 12, help_requests |-> 0]
    /\ \E t \in Sessions :
        /\ sess[t].pc = "loaded"
        /\ sess[t].user = 2
        /\ sess[t].loaded.interaction_count = 10

\* C7: a profile that is novice with no help request stays novice through
\* the calls that bring interaction_count to 1..10 and is intermediate after
\* the one that brings it to 11; a novice call that ends at
\* interaction_count = 11 with help_requests = 2 stays novice.  With the
\* created row (novice, 0, 0) this is the scenario, call by call.
C7_Scenario ==
    /\ DefaultProfile.preferred_mode = "novice"
    /\ DefaultProfile.interaction_count = 0
    /\ DefaultProfile.help_requests = 0
    /\ [][\A u \in Users, h \in BOOLEAN :
            (/\ UpdateUserInteractionStats(u, h)
             /\ profiles[u].exists
             /\ profiles[u].preferred_mode = "novice") =>
                LET n == profiles'[u].interaction_count
                    k == profiles'[u].help_requests
                    after == profiles'[u].preferred_mode
                IN  /\ (k = 0 /\ n <= 10) => after = "novice"
                    /\ (k = 0 /\ n = 11) => after = "intermediate"
                    /\ (k = 2 /\ n = 11) => after = "novice"]_vars

\* Both ends of the scenario: one user promoted at the 11th call without a
\* help request, another still novice at 11 calls with 2 help requests.
C7_Witness ==
    /\ profiles[1] = [exists |-> TRUE, preferred_mode |-> "intermediate",
                      interaction_count |-> 11, help_requests |-> 0]
    /\ profiles[2] = [exists |-> TRUE, preferred_mode |-> "novice",
                      interaction_count |-> 11, help_requests |-> 2]

\* C24: in every state reachable by create_user, update_user_profile and
\* update_user_interaction_stats, each stored profile has interaction_count
\* >= 0, help_requests >= 0 and preferred_mode in {novice, intermediate,
\* expert}.
C24_ProfileInvariant ==
    \A u \in Users :
        profiles[u].exists =>
            /\ profiles[u].interaction_count >= 0
            /\ profiles[u].help_requests >= 0
            /\ profiles[u].preferred_mode \in {"novice", "intermediate", "expert"}

\* C27: one call of update_user_interaction_stats raises the level by at
\* most one step; a profile that is novice before the call is not expert
\* after it, however low the help rate.
C27_OneStep ==
    [][\A u \in Users, h \in BOOLEAN :
        (UpdateUserInteractionStats(u, h) /\ profiles[u].exists) =>
            /\ Rank(profiles'[u].preferred_mode)
                    <= Rank(profiles[u].preferred_mode) + 1
            /\ (profiles[u].preferred_mode = "novice" =>
                    profiles'[u].preferred_mode # "expert")]_vars

\* A profile at its 11th interaction with no help request, where both help
\* rates are under their thresholds, stands at intermediate.
C27_Witness ==
    \E u \in Users :
        profiles[u] = [exists |-> TRUE, preferred_mode |-> "intermediate",
                       interaction_count |-> MinInteractions + 1,
                       help_requests |-> 0]

AcceptedTaxCall ==
    /\ call.fn = "calculate_tax"
    /\ result # TaxIdle
    /\ call.income >= 0
    /\ call.dependents >= 0
    /\ call.additional_deductions >= 0
    /\ call.filing_status \in DOMAIN STANDARD_DEDUCTIONS

\* C8: for every accepted input, total_deductions is the larger of the
\* standard deduction of the filing status and additional_deductions; the
\* two are never added.
C8_DeductionIsMax ==
    AcceptedTaxCall =>
        /\ result.kind = "ok"
        /\ LET sd == STANDARD_DEDUCTIONS[call.filing_status]
               ad == call.additional_deductions
           IN  result.total_deductions = 100 * (IF ad > sd THEN ad ELSE sd)

\* Additional deductions above the standard deduction were applied alone.
C8_Witness ==
    /\ AcceptedTaxCall
    /\ call.additional_deductions > STANDARD_DEDUCTIONS[call.filing_status]
    /\ result.kind = "ok"
    /\ result.total_deductions = 100 * call.additional_deductions
    /\ result.explanation.deduction_type = "itemized deductions"
    /\ result.taxable_income > 0

\* C9: for every accepted input, taxable_income is gross_income minus
\* total_deductions when that is positive and 0 otherwise: never negative,
\* and 0 whenever gross income does not exceed the applied deduction.
C9_TaxableIncome ==
    AcceptedTaxCall =>
        /\ result.kind = "ok"
        /\ result.gross_income = 100 * call.income
        /\ result.taxable_income >= 0
        /\ (result.gross_income <= result.total_deductions =>
                result.taxable_income = 0)
        /\ (result.gross_income > result.total_deductions =>
                result.taxable_income =
                    result.gross_income - result.total_deductions)

\* A positive income below the applied deduction, clamped to 0.
C9_Witness ==
    /\ AcceptedTaxCall
    /\ call.income > 0
    /\ result.kind = "ok"
    /\ result.gross_income < result.total_deductions
    /\ result.taxable_income = 0

Min(a, b) == IF a <= b THEN a ELSE b

RECURSIVE SlabSum(_, _, _)
\* The tax re-derived from the bracket table alone: the sum over brackets
\* 1..i of rate * max(0, min(taxable_income, threshold) - previous
\* threshold), in mills.
SlabSum(brackets, taxable_income, i) ==
    IF i = 0 THEN 0
    ELSE LET lower == IF i = 1 THEN 0 ELSE brackets[i - 1][1]
             inside == Min(taxable_income, brackets[i][1]) - lower
         IN  SlabSum(brackets, taxable_income, i - 1)
                + brackets[i][2] * (IF inside > 0 THEN inside ELSE 0)

\* C10: for every filing status of the tables and every taxable income >= 0
\* the total tax of calculate_progressive_tax equals, to the cent, the sum
\* of the per-bracket contributions re-derived from the bracket table.
C10_Decomposition ==
    (/\ call.fn = "calculate_progressive_tax"
     /\ result # TaxIdle
     /\ call.taxable_income >= 0
     /\ call.filing_status \in DOMAIN BracketTable) =>
        /\ result.kind = "ok"
        /\ Round2(result.total_tax) =
                Round2(SlabSum(BracketTable[call.filing_status],
                               call.taxable_income,
                               Len(BracketTable[call.filing_status])))

\* A taxable income in the top bracket: all seven brackets contribute.
C10_Witness ==
    /\ call.fn = "calculate_progressive_tax"
    /\ call.filing_status = "married_joint"
    /\ call.taxable_income = 970800
    /\ result # TaxIdle
    /\ result.kind = "ok"
    /\ result.marginal_rate = 370
    /\ result.total_tax > 0

\* A call of calculate_progressive_tax on a status of the tables that has
\* returned.
ProgressiveCallDone ==
    /\ call.fn = "calculate_progressive_tax"
    /\ result # TaxIdle
    /\ call.filing_status \in DOMAIN BracketTable

\* C11: for a fixed filing status and taxable incomes 0 <= a <= b, the total
\* tax calculate_progressive_tax computes for a is at most the one it
\* computes for b.
C11_TaxMonotone ==
    (ProgressiveCallDone /\ call.taxable_income >= 0) =>
        /\ result.kind = "ok"
        /\ \A a \in TaxableInputs :
                (0 <= a /\ a <= call.taxable_income) =>
                    LET lower == calculate_progressive_tax(a, call.filing_status)
                    IN  /\ lower.kind = "ok"
                        /\ lower.total_tax <= result.total_tax

\* The tax of an income one dollar above the first threshold of head of
\* household was compared with the strictly smaller tax of the threshold.
C11_Witness ==
    /\ ProgressiveCallDone
    /\ call.filing_status = "head_of_household"
    /\ call.taxable_income = 16551
    /\ result.kind = "ok"
    /\ calculate_progressive_tax(16550, "head_of_household").total_tax
            < result.total_tax

\* C12: for every filing status, every finite threshold t and every e > 0
\* that keeps t + e inside the next bracket, total_tax(t + e) - total_tax(t)
\* is the rate of the bracket just above t times e: no jump at a threshold.
C12_Continuity ==
    ProgressiveCallDone =>
        LET brackets == BracketTable[call.filing_status]
        IN  \A i \in 1..(Len(brackets) - 1) :
                LET t == brackets[i][1]
                    e == call.taxable_income - t
                IN  (e > 0 /\ call.taxable_income <= brackets[i + 1][1]) =>
                        /\ result.kind = "ok"
                        /\ result.total_tax
                             - calculate_progressive_tax(t, call.filing_status).total_tax
                           = brackets[i + 1][2] * e

\* One dollar above the second threshold of the single table: the tax grew
\* by the 22% rate on that dollar.
C12_Witness ==
    /\ ProgressiveCallDone
    /\ call.filing_status = "single"
    /\ call.taxable_income = 47151
    /\ result.kind = "ok"
    /\ result.marginal_rate = 220
    /\ result.total_tax
         = calculate_progressive_tax(47150, "single").total_tax + 220

\* C13: for gross income 0 and a filing status of the tables (dependents and
\* deductions valid), the tax computation, called directly or through
\* POST /tax/calculate, succeeds with total tax 0, marginal_rate 0 and
\* effective_rate 0.
C13_ZeroIncome ==
    (/\ call.fn \in {"calculate_tax", "calculate_taxes"}
     /\ result # TaxIdle
     /\ call.income = 0
     /\ call.dependents >= 0
     /\ call.additional_deductions >= 0
     /\ call.filing_status \in DOMAIN BracketTable) =>
        /\ result.kind = "ok"
        /\ result.federal_tax = 0
        /\ result.marginal_rate = 0
        /\ result.effective_rate = 0

\* C14: calculate_tax reports the first violation in the order income,
\* dependents, additional deductions, filing status, and produces no result
\* when any of the four is invalid.
C14_ValidationOrder ==
    (call.fn = "calculate_tax" /\ result # TaxIdle) =>
        IF call.income < 0
        THEN result = TaxCalculationError("Income cannot be negative")
        ELSE IF call.dependents < 0
        THEN result =
                TaxCalculationError("Number of dependents cannot be negative")
        ELSE IF call.additional_deductions < 0
        THEN result =
                TaxCalculationError("Additional deductions cannot be negative")
        ELSE IF call.filing_status \notin DOMAIN STANDARD_DEDUCTIONS
        THEN result = TaxCalculationError("Invalid filing status for deduction")
        ELSE result.kind = "ok"

\* All four inputs were invalid and only the income was reported.
C14_Witness ==
    /\ call.fn = "calculate_tax"
    /\ call.income < 0
    /\ call.dependents < 0
    /\ call.additional_deductions < 0
    /\ call.filing_status = "widow"
    /\ result = TaxCalculationError("Income cannot be negative")

\* C15: get_tax_brackets and get_standard_deduction succeed for single,
\* married_filing_jointly, married_filing_separately and head_of_household
\* and fail with the unknown-filing-status error for every other status.
C15_LookupStatuses ==
    (/\ call.fn \in {"get_tax_brackets", "get_standard_deduction"}
     /\ result # TaxIdle) =>
        IF call.filing_status \in
            {"single", "married_filing_jointly", "married_filing_separately",
             "head_of_household"}
        THEN result.kind = "ok"
        ELSE result.kind = "error"

\* C16: for every taxable income > 0 the marginal rate of
\* calculate_progressive_tax is the rate of the first bracket, in ascending
\* order, whose threshold is >= the taxable income; an income equal to a
\* threshold gets the rate of the bracket that ends there.
C16_MarginalRate ==
    (ProgressiveCallDone /\ call.taxable_income > 0) =>
        LET brackets == BracketTable[call.filing_status]
            first == CHOOSE i \in 1..Len(brackets) :
                        /\ brackets[i][1] >= call.taxable_income
                        /\ \A j \in 1..(i - 1) :
                                brackets[j][1] < call.taxable_income
        IN  /\ result.kind = "ok"
            /\ result.marginal_rate = brackets[first][2]

\* A taxable income equal to the first threshold of the single table got
\* the 10% rate of the bracket that ends there.
C16_Witness ==
    /\ ProgressiveCallDone
    /\ call.filing_status = "single"
    /\ call.taxable_income = TAX_BRACKETS_SINGLE[1][1]
    /\ result.kind = "ok"
    /\ result.marginal_rate = TAX_BRACKETS_SINGLE[1][2]
    /\ result.marginal_rate < TAX_BRACKETS_SINGLE[2][2]

\* C17: for every accepted input, effective_rate is 100 * total tax / gross
\* income to the nearest hundredth of a percent when gross income > 0 and 0
\* when it is 0, marginal_rate is the bracket rate times 100, and both lie
\* between 0 and 100 percent.
C17_Rates ==
    AcceptedTaxCall =>
        /\ result.kind = "ok"
        /\ (call.income = 0 => result.effective_rate = 0)
        /\ (call.income > 0 =>
                LET mills == 10 * result.federal_tax
                    whole == mills \div call.income
                    rest  == mills % call.income
                IN  \E k \in 0..10 :
                        /\ result.effective_rate = 10 * whole + k
                        /\ 2 * (k * call.income - 10 * rest) <= call.income
                        /\ 2 * (10 * rest - k * call.income) <= call.income)
        /\ result.marginal_rate =
                10 * calculate_progressive_tax(result.taxable_income \div 100,
                                               call.filing_status).marginal_rate
        /\ result.effective_rate >= 0
        /\ result.effective_rate <= 10000
        /\ result.marginal_rate >= 0
        /\ result.marginal_rate <= 10000

\* A head of household with the largest drawn income: the quotient has more
\* than two decimals and the returned rate is the rounded one, below the
\* marginal rate.
C17_Witness ==
    /\ AcceptedTaxCall
    /\ call.income = 1000000
    /\ call.filing_status = "head_of_household"
    /\ call.additional_deductions = 0
    /\ result.kind = "ok"
    /\ (10 * (10 * result.federal_tax % call.income)) % call.income # 0
    /\ result.effective_rate > 0
    /\ result.effective_rate < result.marginal_rate
    /\ result.marginal_rate = 3700

\* C18 as the specification states it: income 50000, single, no dependents,
\* additional deductions 0 gives standard_deduction 14600, taxable_income
\* 35400, total tax 4031.92 and marginal_rate 12.
C18_ScenarioAsStated ==
    (/\ call.fn = "calculate_tax"
     /\ result # TaxIdle
     /\ call.income = 50000
     /\ call.filing_status = "single"
     /\ call.dependents = 0
     /\ call.additional_deductions = 0) =>
        /\ result.kind = "ok"
        /\ result.standard_deduction = 1460000
        /\ result.taxable_income = 3540000
        /\ result.federal_tax = 403192
        /\ result.marginal_rate = 1200

\* C18: income 50000, single, no dependents, additional deductions 0 gives
\* standard_deduction 14600, taxable_income 35400, total tax 4016.00 (10% of
\* 11600 plus 12% of 23800) and marginal_rate 12.
C18_Scenario ==
    (/\ call.fn = "calculate_tax"
     /\ result # TaxIdle
     /\ call.income = 50000
     /\ call.filing_status = "single"
     /\ call.dependents = 0
     /\ call.additional_deductions = 0) =>
        /\ result.kind = "ok"
        /\ result.standard_deduction = 1460000
        /\ result.taxable_income = 3540000
        /\ result.federal_tax = 401600
        /\ result.federal_tax = (100 * 11600 + 120 * 23800) \div 10
        /\ result.marginal_rate = 1200

\* The scenario's call has returned.
C18_Witness ==
    /\ call.fn = "calculate_tax"
    /\ call.income = 50000
    /\ call.filing_status = "single"
    /\ call.dependents = 0
    /\ call.additional_deductions = 0
    /\ result # TaxIdle
    /\ result.kind = "ok"
    /\ result.tax_bracket = BracketDesc(11600, 47150)

\* C19: for a fixed filing status and fixed additional deductions, and gross
\* incomes g1 <= g2 that are both positive and at least the applied
\* deduction, the effective_rate calculate_tax returns for g1 is at most the
\* one it returns for g2.
C19_EffectiveRateMonotone ==
    (/\ AcceptedTaxCall
     /\ call.income > 0
     /\ result.kind = "ok"
     /\ 100 * call.income >= result.total_deductions) =>
        \A g1 \in GrossInputs :
            (/\ g1 > 0
             /\ g1 <= call.income
             /\ 100 * g1 >= result.total_deductions) =>
                LET lower == calculate_tax(g1, call.filing_status,
                                           call.dependents,
                                           call.additional_deductions)
                IN  /\ lower.kind = "ok"
                    /\ lower.total_deductions = result.total_deductions
                    /\ lower.effective_rate <= result.effective_rate

\* A married couple filing jointly with 50000 of itemized deductions and the
\* largest drawn income: its effective rate is above the one of an income
\* at the first threshold over the deduction.
C19_Witness ==
    /\ AcceptedTaxCall
    /\ call.income = 1000000
    /\ call.filing_status = "married_joint"
    /\ call.additional_deductions = 50000
    /\ result.kind = "ok"
    /\ result.total_deductions = 100 * 50000
    /\ LET lower == calculate_tax(50000 + TAX_BRACKETS_MARRIED_JOINT[1][1],
                                   "married_joint", 0, 50000)
       IN  /\ lower.effective_rate > 0
           /\ lower.effective_rate < result.effective_rate

\* C29: for every income > 0, filing status, dependents >= 0 and deductions
\* >= 0 that both accept, POST /calculate-tax (TaxCalculator.calculate_tax)
\* and POST /tax/calculate (the services calculate_tax) return the same
\* taxable income, the same tax (tax_liability = federal_tax), the same
\* effective_rate and the same marginal_rate.
C29_CalculatorsAgree ==
    (call.fn = "main_calculate_tax" /\ result # TaxIdle) =>
        LET other == calculate_taxes(call.income, call.filing_status,
                                     call.dependents, call.additional_deductions)
        IN  (result.kind = "ok" /\ other.kind = "ok") =>
                /\ result.taxable_income = other.taxable_income
                /\ result.tax_liability = other.federal_tax
                /\ result.effective_rate = other.effective_rate
                /\ result.marginal_rate = other.marginal_rate

(***************************************************************************)
(* Claims about the explanation engine                                     *)
(***************************************************************************)

\* C20: get_explanation never raises, and for every query that matches no
\* term and no topic key, with no calculation context, and every proficiency
\* value (a value outside the three levels counting as novice), it returns
\* the generic fallback text of that level.
C20_Fallback ==
    (call.fn = "explain" /\ result # TaxIdle) =>
        /\ result.kind = "ok"
        /\ LET query_lower == StrLower(call.query)
               level == IF call.proficiency \in {"novice", "intermediate", "expert"}
                        THEN call.proficiency ELSE "novice"
           IN  (/\ \A i \in 1..Len(TAX_TERMS) :
                        ~TermMatches(TAX_TERMS[i], query_lower)
                /\ \A i \in 1..Len(TOPICS) :
                        ~TopicMatches(TOPICS[i], query_lower)
                /\ \/ call.context.none
                   \/ ~DictHas(call.context.items, "federal_tax")) =>
                    /\ result.explanation = [table |-> "default", level |-> level]
                    /\ result.proficiency = level
                    /\ result.technical_terms = {}
                    /\ result.related_topics = <<"tax_planning", "filing_status">>

\* The query "hello" with a proficiency that is none of the three levels and
\* a context that is a dict without federal_tax got the novice fallback.
C20_Witness ==
    /\ call.fn = "explain"
    /\ call.query = <<"h", "e", "l", "l", "o">>
    /\ call.proficiency = "guru"
    /\ call.context = Dict({<<"gross_income", 5000000>>})
    /\ result # TaxIdle
    /\ result.kind = "ok"
    /\ result.explanation = [table |-> "default", level |-> "novice"]

\* The set of the elements of a list.
Range(s) == {s[i] : i \in 1..Len(s)}

\* C21: explain("agi", "expert") returns the expert-level AGI text of the
\* term table unchanged, with related_topics exactly the set
\* {standard_deduction, itemized_deductions, credits}.
C21_AgiExpert ==
    (/\ call.fn = "explain"
     /\ result # TaxIdle
     /\ call.query = <<"a", "g", "i">>
     /\ call.proficiency = "expert"
     /\ call.context = None) =>
        /\ result.kind = "ok"
        /\ result.explanation =
                [table |-> "TAX_TERMS", key |-> "agi", level |-> "expert"]
        /\ result.proficiency = "expert"
        /\ Range(result.related_topics) =
                {"standard_deduction", "itemized_deductions", "credits"}
        /\ Len(result.related_topics) = 3

\* explain("agi", "expert") has returned.
C21_Witness ==
    /\ call.fn = "explain"
    /\ call.query = <<"a", "g", "i">>
    /\ call.proficiency = "expert"
    /\ call.context = None
    /\ result # TaxIdle
    /\ result.kind = "ok"
    /\ result.explanation.key = "agi"
    /\ result.technical_terms = {"agi", "deduction", "credit", "income"}

\* C22: every result of get_explanation, on each of its four paths (term
\* match, topic match, synthesis from a calculation context, generic
\* fallback), carries at most 3 related-topic keys.
C22_RelatedBound ==
    (call.fn = "explain" /\ result # TaxIdle) =>
        /\ result.kind = "ok"
        /\ result.explanation.table \in
                {"TAX_TERMS", "TOPICS", "calculation", "default"}
        /\ Len(result.related_topics) <= 3

\* A topic match that carries exactly three related topics.
C22_Witness ==
    /\ call.fn = "explain"
    /\ result # TaxIdle
    /\ result.kind = "ok"
    /\ result.explanation.table = "TOPICS"
    /\ result.explanation.key = "tax_planning"
    /\ Len(result.related_topics) = 3

\* A key occurs in a query when the lower-cased query contains the key,
\* written with underscores or with spaces.
KeyInQuery(key, query) ==
    \/ StrIn(Spell[key], StrLower(query))
    \/ StrIn(StrReplace(Spell[key], "_", " "), StrLower(query))

\* The level a request is answered at.
RequestedLevel(proficiency) ==
    IF proficiency \in {"novice", "intermediate", "expert"}
    THEN proficiency ELSE "novice"

\* C23: a query that matches a key of the term or topic table returns the
\* entry of a matched key at the requested level even when a calculation
\* context is supplied; with no match and a calculation context the text is
\* synthesised from the context; with neither, the generic fallback.
C23_ResolutionOrder ==
    (call.fn = "explain" /\ result # TaxIdle) =>
        LET matched == {k \in DOMAIN Spell : KeyInQuery(k, call.query)}
            calculation == /\ ~call.context.none
                           /\ DictHas(call.context.items, "federal_tax")
            level == RequestedLevel(call.proficiency)
        IN  /\ result.kind = "ok"
            /\ (matched # {} =>
                    /\ result.explanation.table \in {"TAX_TERMS", "TOPICS"}
                    /\ result.explanation.key \in matched
                    /\ result.explanation.level = level)
            /\ (matched = {} /\ calculation =>
                    /\ result.explanation.table = "calculation"
                    /\ result.explanation.level = level
                    /\ result.explanation.tax =
                            DictGet(call.context.items, "federal_tax", 0))
            /\ (matched = {} /\ ~calculation =>
                    result.explanation = [table |-> "default", level |-> level])

\* The table a key belongs to.
TableOf(key) ==
    IF \E i \in 1..Len(TAX_TERMS) : TAX_TERMS[i] = key
    THEN "TAX_TERMS" ELSE "TOPICS"

\* C30: for every key k of TAX_TERMS and of TOPICS and every proficiency
\* level, get_explanation called with k written with spaces instead of
\* underscores returns the text stored under k at that level, with the
\* related topics of k.
C30_KeyReachable ==
    (call.fn = "explain" /\ result # TaxIdle) =>
        \A k \in DOMAIN Spell :
            (/\ call.query = StrReplace(Spell[k], "_", " ")
             /\ call.proficiency \in EngineLevels) =>
                /\ result.kind = "ok"
                /\ result.explanation =
                        [table |-> TableOf(k), key |-> k,
                         level |-> call.proficiency]
                /\ result.related_topics = get_related_topics(k)

(***************************************************************************)
(* Claims about the tax form store                                         *)
(***************************************************************************)

\* C25: after any sequence or interleaving of create_tax_form requests a
\* user has at most one tax form per tax year: two stored forms with the
\* same owner and the same year are the same row.
C25_OneFormPerYear ==
    \A a \in tax_forms, b \in tax_forms :
        (a.owner_id = b.owner_id /\ a.year = b.year) => a.id = b.id

\* Form f exists and belongs to a user other than u.
OwnedByAnother(u, f) ==
    \E form \in tax_forms : form.id = f /\ form.owner_id # u

\* The step answered 403 with no row and wrote nothing.
Refused ==
    /\ response'.status_code = 403
    /\ response'.data = {}
    /\ UNCHANGED <<tax_forms, sub_resources, audit_logs>>

\* A read, update, delete or sub-resource request of user u on form f.
RequestOnForm(u, f) ==
    \/ GetTaxForm(u, f)
    \/ \E d \in UpdateInputs : UpdateTaxForm(u, f, d)
    \/ DeleteTaxForm(u, f)
    \/ CreateDependent(u, f)
    \/ ListDependents(u, f)
    \/ CreateW2Form(u, f)
    \/ ListW2Forms(u, f)
    \/ Create1099Form(u, f)
    \/ List1099Forms(u, f)
    \/ ListComplianceChecks(u, f)

\* C26: every read, update, delete or sub-resource request on a tax form
\* made by a user who is not the form's owner is answered 403, returns none
\* of the form's rows, and leaves the forms, their sub-resources and the
\* audit log as they were.
C26_OwnershipIsolation ==
    [][\A u \in Users, f \in FormIds :
            (OwnedByAnother(u, f) /\ RequestOnForm(u, f)) => Refused]_vars

\* A user asked for the dependents of another user's form, which has one,
\* and was answered 403.
C26_Witness ==
    /\ response # NoResponse
    /\ response.endpoint = "list_dependents"
    /\ response.status_code = 403
    /\ \E form \in tax_forms :
            /\ form.id = response.form_id
            /\ form.owner_id # response.user
            /\ \E r \in sub_resources :
                    r.table = "dependents" /\ r.form_id = form.id

====
